---- MODULE Spec2Model ----
(***************************************************************************)
(* Model of the ECG visualisation pipeline: the sample source              *)
(* (generateMockECG), the retention buffer kept by the Demo page's         *)
(* producer interval, the min/max decimator (decimateData), the timeline,  *)
(* the real-time strip and the detail view with their render passes and    *)
(* grid loops, and the handlers of ECGControls.                            *)
(*                                                                         *)
(* Conventions.                                                            *)
(*  - Time is in whole milliseconds.  Date.now() is the variable `now`;    *)
(*    it is counted from a small epoch so that it fits TLC's integers.     *)
(*    The code only ever subtracts clock readings and aligns them to       *)
(*    multiples of 1000 ms, so the epoch is a multiple of 1000.            *)
(*  - A duration is carried in milliseconds (durationMs = duration*1000).  *)
(*  - An ECGDataPoint is the record [value, timestamp].  `value` is a      *)
(*    float in the code (sums of Gaussian bumps plus Math.random noise);   *)
(*    here it is an integer number of amplitude units.                     *)
(*  - Math.random() is a deterministic generator with a hidden state that  *)
(*    is seeded when the page starts: `rngState` is that state, chosen     *)
(*    nondeterministically by Init and advanced by every draw.             *)
(*  - Arrays are 0-based in the code and 1-based here: data[i] of the code *)
(*    is data[i + 1] of the model.                                         *)
(***************************************************************************)
EXTENDS Integers, Sequences, FiniteSets, TLC

VARIABLES
    now,            \* Date.now(), ms
    rngState,       \* hidden state of Math.random()
    config,         \* Demo: const [config, setConfig] = useState(DEFAULT_CONFIG)
    data,           \* Demo: const [data, setData] = useState([])
    interval,       \* Demo: const interval of the last run of the effect, the
                    \* handle setInterval returned; 0 before the first run
    ticks,          \* number of producer ticks taken (bounds the exploration)
    configId,       \* Demo: number of setConfig calls; identifies the object
                    \* held in `config`
    effectConfigId, \* Demo: the configId the effect last ran with
    activeTimers,   \* the interval timers not cleared: [id, config] with
                    \* config the configuration captured by the callback
    nextTimer,      \* the handle the next setInterval returns
    dataOrigin,     \* for each sample of `data`, the handle of the interval
                    \* timer of the effect run that seeded or appended it
    dataId,         \* identity of the array object held in `data`
    dataRef,        \* reader: <<>>, or <<[id, seen]>>: the array it was handed
                    \* and the contents it saw then
    refArray,       \* the present contents of the array the reader holds
    durationMs,     \* argument `duration` of a generateMockECG call, in ms
    points,         \* result of that generateMockECG call
    nextPoints,     \* result of the generateMockECG call one duration later
    rowData,        \* argument `data` of a decimateData call
    targetPoints,   \* argument `targetPoints` of a decimateData call
    decimatedData,  \* result of that decimateData call
    pc,             \* position of the explored call sequence
    scrollTop,      \* timeline: container.scrollTop, px
    clientWidth,    \* timeline: container.clientWidth, px
    dprHalves,      \* window.devicePixelRatio, in halves (2 is a ratio of 1)
    canvasWidth,    \* timeline: canvas.width, device px
    selectedSegment,    \* timeline: useState(null); <<>> is null, <<k>> is k
    onSegmentSelect,    \* timeline: TRUE when the onSegmentSelect prop is given
    selectCalls,    \* number of onSegmentSelect invocations so far
    lastSelection,  \* argument of the last onSegmentSelect invocation, or <<>>
    click,          \* the last click handled by handleCanvasClick, or <<>>
    renderedAt,     \* timeline: the Date.now() read by the last updateCanvas
    pendingFrames,  \* the requestAnimationFrame callbacks not yet run or
                    \* cancelled: [handle, effect] with effect the run of the
                    \* effect whose render function was passed
    nextHandle,     \* the handle the next requestAnimationFrame returns
    animationFrameRef,  \* real-time strip: useRef<number>(); 0 is undefined
    animationFrame, \* animation loop: const animationFrame of the effect
    lastRenderTimeRef,  \* real-time strip: useRef<number>(0)
    effectGen,      \* number of times the effect has run
    effectActive,   \* TRUE from a run of the effect to its cleanup
    frameClock,     \* timestamp of the last animation frame, 1/100 ms
    frames,         \* number of render callbacks run so far
    drawTimes,      \* timestamps of the last two frames that drew
    targetInterval, \* real-time strip: the frame-skip threshold, 1/100 ms
    lastDrawnData,  \* real-time strip: the identity of the array the last
                    \* drawing frame read from dataRef; -1 before any draw
    renderer,       \* render pass: the component whose pass is explored
    surface,        \* render pass: what the canvas shows
    gridX,          \* drawDetailedGrid: the loop variable (x or y) of the
                    \* loop being run, a float
    controlCall     \* ECGControls: the last handler call, or <<>>

timelineVars == <<scrollTop, clientWidth, dprHalves, canvasWidth,
                  selectedSegment, onSegmentSelect, selectCalls, lastSelection,
                  click, renderedAt>>

frameVars == <<pendingFrames, nextHandle, animationFrameRef, animationFrame,
               lastRenderTimeRef, effectGen, effectActive, frameClock, frames,
               drawTimes, targetInterval, lastDrawnData>>

renderVars == <<renderer, surface, gridX, controlCall>>

viewVars == <<timelineVars, frameVars, renderVars>>

producerVars == <<configId, effectConfigId, activeTimers, nextTimer,
                  dataOrigin, dataId, dataRef, refArray>>

vars == <<now, rngState, config, data, interval, ticks, durationMs, points,
          nextPoints, rowData, targetPoints, decimatedData, pc, viewVars,
          producerVars>>

demoVars == <<config, data, interval, ticks, producerVars>>
synthVars == <<durationMs, points, nextPoints>>
decimateVars == <<rowData, targetPoints, decimatedData>>

Min(a, b) == IF a < b THEN a ELSE b

Max(a, b) == IF a > b THEN a ELSE b

(***************************************************************************)
(* Bounds of the exploration.                                              *)
(***************************************************************************)
MaxLen == 5
MaxTarget == 3
MaxTicks == 3

SampleValues == 0 .. 2
SampleTimestamps == 0 .. 1

ECGDataPoint == [value : SampleValues, timestamp : SampleTimestamps]

DEFAULT_CONFIG ==
    [samplingRate |-> 128, timeScale |-> 25, amplitude |-> 10, gridSize |-> 5,
     leadConfiguration |-> "II"]

(***************************************************************************)
(* decimateData (ecg-utils.ts:34-68).                                      *)
(*                                                                         *)
(* The code pushes references to elements of `data`; the model keeps the   *)
(* 0-based indices of the pushed elements (decimateIndices) and reads the  *)
(* samples through them (decimateData), so that the identity of an emitted *)
(* sample is kept.                                                         *)
(***************************************************************************)
Infinity == <<>>

\* line 35: if (data.length <= targetPoints) return data;
NoDecimationMutant(d, target) == Len(d) < target
NoDecimation(d, target) == Len(d) <= target

\* line 37: const stride = Math.floor(data.length / targetPoints);
StrideMutantHalved(d, target) == Max(1, Len(d) \div (2 * target))
Stride(d, target) == Len(d) \div target

\* line 40: for (let i = 0; i < data.length; i += stride): the values i takes
WindowStartsMutantSliding(d, stride) == [w \in 1 .. Len(d) |-> w - 1]
WindowStarts(d, stride) ==
    [w \in 1 .. (Len(d) + stride - 1) \div stride |-> (w - 1) * stride]

\* line 42: const windowEnd = Math.min(i + stride, data.length);
WindowEnd(d, i, stride) == Min(i + stride, Len(d))

\* line 49: data[j].value < minVal, minVal starting at Infinity
IsNewMin(v, minVal) == minVal = Infinity \/ v < minVal[1]

\* line 53: data[j].value > maxVal, maxVal starting at -Infinity
IsNewMaxMutant(v, maxVal) == maxVal # Infinity /\ v < maxVal[1]
IsNewMax(v, maxVal) == maxVal = Infinity \/ v > maxVal[1]

\* lines 48-57: the inner loop over j; minPoint and maxPoint are indices
RECURSIVE ScanWindow(_, _, _, _, _, _, _)
ScanWindow(d, j, windowEnd, minVal, maxVal, minPoint, maxPoint) ==
    IF j >= windowEnd
    THEN [minPoint |-> minPoint, maxPoint |-> maxPoint]
    ELSE LET v == d[j + 1].value
             newMin == IsNewMin(v, minVal)
             newMax == IsNewMax(v, maxVal)
         IN ScanWindow(d, j + 1, windowEnd,
                       IF newMin THEN <<v>> ELSE minVal,
                       IF newMax THEN <<v>> ELSE maxVal,
                       IF newMin THEN j ELSE minPoint,
                       IF newMax THEN j ELSE maxPoint)

\* lines 59-64: the pair pushed for a window, the point with the smaller
\* timestamp first
PushPairMutantUnordered(d, minPoint, maxPoint) == <<minPoint, maxPoint>>
PushPair(d, minPoint, maxPoint) ==
    IF d[minPoint + 1].timestamp < d[maxPoint + 1].timestamp
    THEN <<minPoint, maxPoint>>
    ELSE <<maxPoint, minPoint>>

\* lines 40-65: the outer loop; `decimated` is the pushed pairs in the order
\* of the windows
DecimateLoop(d, stride) ==
    LET starts == WindowStarts(d, stride)
        pairs == [w \in 1 .. Len(starts) |->
                     LET i == starts[w]
                         scan == ScanWindow(d, i, WindowEnd(d, i, stride),
                                            Infinity, Infinity, i, i)
                     IN PushPair(d, scan.minPoint, scan.maxPoint)]
    IN [k \in 1 .. 2 * Len(starts) |-> pairs[(k + 1) \div 2][((k - 1) % 2) + 1]]

\* the indices (0-based) of the elements decimateData returns, in order
decimateIndices(d, target) ==
    IF NoDecimation(d, target)
    THEN [k \in 1 .. Len(d) |-> k - 1]
    ELSE DecimateLoop(d, Stride(d, target))

decimateDataMutantAveraged(d, target) ==
    LET idx == decimateIndices(d, target)
    IN IF NoDecimation(d, target)
       THEN d
       ELSE [k \in 1 .. Len(idx) |->
                LET other == IF k % 2 = 1 THEN k + 1 ELSE k - 1
                IN [value |-> (d[idx[k] + 1].value + d[idx[other] + 1].value) \div 2,
                    timestamp |-> d[idx[k] + 1].timestamp]]
decimateData(d, target) ==
    LET idx == decimateIndices(d, target)
    IN [k \in 1 .. Len(idx) |-> d[idx[k] + 1]]

(***************************************************************************)
(* generateMockECG (ecg-utils.ts:71-177).                                  *)
(***************************************************************************)
RngStates == 0 .. 2

\* one Math.random() draw of the stream, as a noise level in -1 .. 1
Random(state) == ((2 * state + 1) % 3) - 1

\* the stream after `draws` samples have taken their draws
AdvanceRng(state, draws) == (state + Max(draws, 0)) % Cardinality(RngStates)

\* line 74: const samplesCount = Math.floor(duration * config.samplingRate);
SamplesCount(durMs, rate) == (durMs * rate) \div 1000

\* line 78: const startTime = duration <= 0.1 ? now : Math.floor(now / 1000) * 1000;
StartTime(durMs, t) == IF durMs <= 100 THEN t ELSE (t \div 1000) * 1000

\* line 95: const processingBatchSize = Math.min(config.samplingRate * 5, samplesCount);
ProcessingBatchSize(rate, samplesCount) == Min(rate * 5, samplesCount)

\* lines 101-164: the value of sample i.  The cardiac cycle is taken at the
\* base heart rate of 75 BPM (0.8 s); the P, Q, R, S and T deflections are
\* integer levels around their centre phases, and the noise terms are one
\* draw of the random stream.
ECGValue(i, rate, rng) ==
    LET phase == ((i * 1000) \div rate) % 800
        wave == IF phase >= 100 /\ phase < 156 THEN 1
                ELSE IF phase >= 296 /\ phase < 312 THEN -2
                ELSE IF phase >= 312 /\ phase < 328 THEN 12
                ELSE IF phase >= 328 /\ phase < 344 THEN -3
                ELSE IF phase >= 560 /\ phase < 680 THEN 3
                ELSE 0
    IN wave + Random((rng + i) % Cardinality(RngStates))

\* line 167: const timestamp = startTime - (duration * 1000) + Math.floor(t * 1000);
\* with t = i / config.samplingRate (line 101)
TimestampMutantRightAnchored(startTime, durMs, i, rate) ==
    startTime - durMs + (((i + 1) * 1000) \div rate)
Timestamp(startTime, durMs, i, rate) == startTime - durMs + ((i * 1000) \div rate)

\* lines 168-171: points.push({ value, timestamp })
Point(i, durMs, rate, startTime, rng) ==
    [value |-> ECGValue(i, rate, rng),
     timestamp |-> Timestamp(startTime, durMs, i, rate)]

\* lines 97-173: the loop over the processing batches and, in each, over i
RECURSIVE ProcessBatches(_, _, _, _, _, _, _, _)
ProcessBatches(batchStart, samplesCount, batchSize, durMs, rate, startTime, rng, acc) ==
    IF batchStart >= samplesCount
    THEN acc
    ELSE LET batchEnd == Min(batchStart + batchSize, samplesCount)
             batch == [k \in 1 .. (batchEnd - batchStart) |->
                          Point(batchStart + k - 1, durMs, rate, startTime, rng)]
         IN ProcessBatches(batchStart + batchSize, samplesCount, batchSize,
                           durMs, rate, startTime, rng, acc \o batch)

generateMockECG(durMs, rate, t, rng) ==
    LET samplesCount == SamplesCount(durMs, rate)
    IN ProcessBatches(0, samplesCount, ProcessingBatchSize(rate, samplesCount),
                      durMs, rate, StartTime(durMs, t), rng, <<>>)

(***************************************************************************)
(* The first generateMockECG (demo.tsx:473-511): samplesCount is the       *)
(* product itself, not its floor, and timestamps count from 0.             *)
(***************************************************************************)
\* line 482: i < samplesCount, samplesCount = duration * config.samplingRate
LegacyLoopGuard(i, durMs, rate) == i * 1000 < durMs * rate

\* lines 483-507: t = i / samplingRate; timestamp: t * 1000
LegacyPoint(i, rate, rng) ==
    [value |-> ECGValue(i, rate, rng), timestamp |-> (i * 1000) \div rate]

\* lines 482-508: the loop runs for i = 0, 1, ... while the guard holds; the
\* guard holds on an initial segment of the candidates
LegacyIterations(durMs, rate) ==
    Cardinality({i \in 0 .. Max(0, (durMs * rate) \div 1000) :
                    LegacyLoopGuard(i, durMs, rate)})

generateMockECGLegacy(durMs, rate, rng) ==
    [k \in 1 .. LegacyIterations(durMs, rate) |-> LegacyPoint(k - 1, rate, rng)]

(***************************************************************************)
(* The states in which a component is not being explored.                  *)
(***************************************************************************)
ProducerIdle ==
    /\ configId = 0
    /\ effectConfigId = 0
    /\ activeTimers = {}
    /\ nextTimer = 1
    /\ dataOrigin = <<>>
    /\ dataId = 0
    /\ dataRef = <<>>
    /\ refArray = <<>>

DemoIdle ==
    /\ config = DEFAULT_CONFIG
    /\ data = <<>>
    /\ interval = 0
    /\ ticks = 0
    /\ ProducerIdle

SynthIdle ==
    /\ durationMs = 0
    /\ points = <<>>
    /\ nextPoints = <<>>

DecimateIdle ==
    /\ rowData = <<>>
    /\ targetPoints = 1
    /\ decimatedData = <<>>

TimelineIdle ==
    /\ scrollTop = 0
    /\ clientWidth = 0
    /\ dprHalves = 2
    /\ canvasWidth = 0
    /\ selectedSegment = <<>>
    /\ onSegmentSelect = FALSE
    /\ selectCalls = 0
    /\ lastSelection = <<>>
    /\ click = <<>>
    /\ renderedAt = 0

FrameIdle ==
    /\ pendingFrames = {}
    /\ nextHandle = 1
    /\ animationFrameRef = 0
    /\ animationFrame = 0
    /\ lastRenderTimeRef = 0
    /\ effectGen = 0
    /\ effectActive = FALSE
    /\ frameClock = 0
    /\ frames = 0
    /\ drawTimes = <<>>
    /\ targetInterval = 0
    /\ lastDrawnData = -1

RenderIdle ==
    /\ renderer = "none"
    /\ surface = <<>>
    /\ gridX = <<>>
    /\ controlCall = <<>>

ViewIdle == TimelineIdle /\ FrameIdle /\ RenderIdle

(***************************************************************************)
(* SpecDecimate: decimateData applied to every short sample sequence.      *)
(* The rows handed to decimateData are filtered from the Demo buffer,      *)
(* which the producer does not keep in timestamp order, so the inputs are  *)
(* all sequences, ordered or not.                                          *)
(***************************************************************************)
SeqsUpTo(S, n) == UNION {[1 .. k -> S] : k \in 0 .. n}

InitDecimate ==
    /\ now = 0
    /\ rngState = 0
    /\ DemoIdle
    /\ SynthIdle
    /\ rowData \in SeqsUpTo(ECGDataPoint, MaxLen)
    /\ targetPoints \in 1 .. MaxTarget
    /\ decimatedData = <<>>
    /\ pc = "start"
    /\ ViewIdle

\* ecg-display.tsx:129: const decimatedData = decimateData(rowData, ...)
Decimate ==
    /\ pc = "start"
    /\ decimatedData' = decimateData(rowData, targetPoints)
    /\ pc' = "done"
    /\ UNCHANGED <<viewVars, now, rngState, demoVars, synthVars, rowData, targetPoints>>

NextDecimate == Decimate

SpecDecimate == InitDecimate /\ [][NextDecimate]_vars

(***************************************************************************)
(* What the claims about decimateData speak of.                            *)
(***************************************************************************)
Decimated == pc = "done" /\ Len(rowData) > targetPoints

SpecStride == Len(rowData) \div targetPoints

\* ceil(len / stride): the number of windows
WindowCount == (Len(rowData) + SpecStride - 1) \div SpecStride

\* the 0-based input indices of window w (w = 0, 1, ...)
WindowIndices(w) ==
    {j \in 0 .. Len(rowData) - 1 : j \div SpecStride = w}

WindowValues(w) == {rowData[j + 1].value : j \in WindowIndices(w)}

SetMin(S) == CHOOSE x \in S : \A y \in S : x <= y

SetMax(S) == CHOOSE x \in S : \A y \in S : x >= y

TimeOrdered(s) ==
    \A k \in 1 .. Len(s) - 1 : s[k].timestamp <= s[k + 1].timestamp

\* how often the input element of 0-based index j is emitted
Emissions(j) ==
    LET idx == decimateIndices(rowData, targetPoints)
    IN Cardinality({k \in 1 .. Len(idx) : idx[k] = j})

\* C3: whenever len(s) <= n, decimate(s, n) returns s unchanged: the same
\* samples in the same order.
C3_SmallInputUnchanged ==
    (pc = "done" /\ Len(rowData) <= targetPoints) => decimatedData = rowData

C3_Witness ==
    pc = "done" /\ Len(rowData) = targetPoints /\ Len(rowData) >= 2
    /\ decimatedData = rowData

\* C4: for an input longer than the target, the two values emitted for each
\* window of stride samples are the minimum and the maximum of the window's
\* input values.
C4_WindowExtremaPreserved ==
    Decimated =>
        /\ Len(decimatedData) = 2 * WindowCount
        /\ \A w \in 0 .. WindowCount - 1 :
              {decimatedData[2 * w + 1].value, decimatedData[2 * w + 2].value}
                  = {SetMin(WindowValues(w)), SetMax(WindowValues(w))}

C4_Witness ==
    /\ Decimated
    /\ SpecStride = 2
    /\ WindowCount = 3
    /\ \E w \in 0 .. WindowCount - 1 :
          /\ Cardinality(WindowIndices(w)) = 2
          /\ rowData[2 * w + 1].value < rowData[2 * w + 2].value
          /\ decimatedData[2 * w + 1].value # decimatedData[2 * w + 2].value

\* C6: a window that contains exactly one sample (a short last window, or
\* every window when stride = 1) has that sample emitted exactly once.
C6_SingleSampleWindowEmittedOnce ==
    Decimated =>
        \A w \in 0 .. WindowCount - 1 :
            Cardinality(WindowIndices(w)) = 1 =>
                \A j \in WindowIndices(w) : Emissions(j) = 1

\* C7: for len > targetPointCount >= 1 the output has at most
\* 2 * ceil(len / stride) samples, stride = floor(len / targetPointCount).
C7_OutputLengthBound ==
    Decimated => Len(decimatedData) <= 2 * WindowCount

C7_Witness ==
    /\ Decimated
    /\ Len(rowData) = 5
    /\ targetPoints = 2
    /\ Len(decimatedData) = 6

\* C8: for an input in non-decreasing timestamp order the output is in
\* non-decreasing timestamp order, also when a window's maximum comes
\* before its minimum.
C8_OutputTimeOrdered ==
    (pc = "done" /\ TimeOrdered(rowData)) => TimeOrdered(decimatedData)

C8_Witness ==
    /\ Decimated
    /\ TimeOrdered(rowData)
    /\ SpecStride >= 2
    /\ rowData[1].timestamp < rowData[2].timestamp
    /\ rowData[1].value > rowData[2].value
    /\ decimatedData[1] = rowData[1]
    /\ decimatedData[2] = rowData[2]

(***************************************************************************)
(* SpecSynth: one generateMockECG call, by either generator, followed by   *)
(* decimateData on its result.                                             *)
(***************************************************************************)
SynthNows == {100000, 100001, 100999, 101500}
Durations == {-1000, 0, 50, 100, 200, 500, 1000}
SamplingRates == {1, 5, 100, 128}
SynthTargets == {50, 64, 200}

InitSynth ==
    /\ now \in SynthNows
    /\ rngState \in RngStates
    /\ \E rate \in SamplingRates :
          config = [DEFAULT_CONFIG EXCEPT !.samplingRate = rate]
    /\ data = <<>>
    /\ interval = 0
    /\ ticks = 0
    /\ ProducerIdle
    /\ durationMs \in Durations
    /\ points = <<>>
    /\ nextPoints = <<>>
    /\ rowData = <<>>
    /\ targetPoints \in SynthTargets
    /\ decimatedData = <<>>
    /\ pc = "start"
    /\ ViewIdle

\* ecg-utils.ts:71: generateMockECG(duration, config)
Synthesize ==
    /\ pc = "start"
    /\ points' = generateMockECG(durationMs, config.samplingRate, now, rngState)
    /\ rngState' = AdvanceRng(rngState, SamplesCount(durationMs, config.samplingRate))
    /\ pc' = "synthesized"
    /\ UNCHANGED <<viewVars, now, demoVars, durationMs, nextPoints, decimateVars>>

\* demo.tsx:473: generateMockECG(duration, config).  Its timestamps are
\* i * 1000 / samplingRate; the call is explored at the rates whose period
\* is a whole number of milliseconds.
SynthesizeLegacy ==
    /\ pc = "start"
    /\ 1000 % config.samplingRate = 0
    /\ points' = generateMockECGLegacy(durationMs, config.samplingRate, rngState)
    /\ rngState' = AdvanceRng(rngState, Len(points'))
    /\ pc' = "synthesizedLegacy"
    /\ UNCHANGED <<viewVars, now, demoVars, durationMs, nextPoints, decimateVars>>

\* ecg-utils.ts:71: the generateMockECG call, of the same duration and
\* configuration, made when the clock has advanced by the duration.  The
\* call is explored when its anchor (line 78) is one duration after the
\* first call's: always for a duration of at most 0.1 s, and for a longer one
\* when the duration is a whole number of seconds.
SynthesizeNext ==
    /\ pc = "synthesized"
    /\ durationMs > 0
    /\ StartTime(durationMs, now + durationMs)
           = StartTime(durationMs, now) + durationMs
    /\ now' = now + durationMs
    /\ nextPoints' = generateMockECG(durationMs, config.samplingRate, now',
                                    rngState)
    /\ rngState' = AdvanceRng(rngState, SamplesCount(durationMs, config.samplingRate))
    /\ pc' = "tiled"
    /\ UNCHANGED <<viewVars, demoVars, durationMs, points, decimateVars>>

\* decimate(result, targetPointCount) on the batch just synthesized
DecimatePoints ==
    /\ pc \in {"synthesized", "synthesizedLegacy"}
    /\ rowData' = points
    /\ decimatedData' = decimateData(points, targetPoints)
    /\ pc' = "done"
    /\ UNCHANGED <<viewVars, now, rngState, demoVars, synthVars, targetPoints>>

NextSynth == Synthesize \/ SynthesizeLegacy \/ SynthesizeNext \/ DecimatePoints

SpecSynth == InitSynth /\ [][NextSynth]_vars

\* the end-of-batch anchor of the call being explored
Anchor == StartTime(durationMs, now)

\* C5 (as stated): a 128-sample input decimated with targetPointCount 50
\* gives at most 100 samples.
C5_AtMost100 ==
    (pc = "done" /\ Len(rowData) = 128 /\ targetPoints = 50)
        => Len(decimatedData) <= 100

\* C5 (amended): a 128-sample input decimated with targetPointCount 50
\* gives at most 128 samples (stride 2, 64 windows, two samples each).
C5_AtMost128 ==
    (pc = "done" /\ Len(rowData) = 128 /\ targetPoints = 50)
        => Len(decimatedData) <= 128

C5_Witness ==
    /\ pc = "done"
    /\ durationMs = 1000
    /\ config.samplingRate = 128
    /\ Len(rowData) = 128
    /\ targetPoints = 50
    /\ Len(decimatedData) = 128

\* C9: synthesize returns exactly floor(durationSeconds * samplingRateHz)
\* samples, and no sample when durationSeconds <= 0.
C9_SampleCount ==
    pc \in {"synthesized", "synthesizedLegacy"} =>
        Len(points) = IF durationMs <= 0
                      THEN 0
                      ELSE (durationMs * config.samplingRate) \div 1000

\* C10 (as stated): in a non-empty batch the last sample's timestamp is the
\* end-of-batch anchor and each earlier sample is one sample period
\* (1000 / samplingRate ms) further back.
C10_RightAnchored ==
    (pc = "synthesized" /\ Len(points) > 0) =>
        /\ points[Len(points)].timestamp = Anchor
        /\ \A k \in 1 .. Len(points) :
              (Anchor - points[k].timestamp) * config.samplingRate
                  = (Len(points) - k) * 1000

\* C10 (amended): in a non-empty batch of generateMockECG (ecg-utils.ts:71)
\* the first sample's timestamp is the anchor minus the duration, sample i
\* (i = 0, 1, ...) lies at the whole millisecond at or below i sample
\* periods after the first, and the last sample is strictly before the
\* anchor.
C10_LeftAnchored ==
    (pc = "synthesized" /\ Len(points) > 0) =>
        /\ points[1].timestamp = Anchor - durationMs
        /\ \A k \in 1 .. Len(points) :
              LET elapsed == (points[k].timestamp - points[1].timestamp)
                                 * config.samplingRate
              IN /\ elapsed <= (k - 1) * 1000
                 /\ elapsed + config.samplingRate > (k - 1) * 1000
        /\ points[Len(points)].timestamp < Anchor

C10_Witness ==
    /\ pc = "synthesized"
    /\ durationMs = 200
    /\ config.samplingRate = 128
    /\ now % 1000 # 0
    /\ Len(points) = 25
    /\ points[1].timestamp = Anchor - 200
    /\ points[25].timestamp = Anchor - 13

\* C11: two generateMockECG calls of the same duration and rate whose
\* anchors are exactly one duration apart: in the earlier batch followed by
\* the later one every two neighbours, the pair across the batch boundary
\* included, are 1000 / samplingRate ms apart (no gap and no overlap).  The
\* timestamps are whole milliseconds, so a spacing counts as one sample
\* period when it is less than 1 ms away from it.
C11_TilingConstantSpacing ==
    pc = "tiled" =>
        LET both == points \o nextPoints
        IN \A k \in 1 .. Len(both) - 1 :
              LET spacing == both[k + 1].timestamp - both[k].timestamp
              IN /\ (spacing - 1) * config.samplingRate < 1000
                 /\ (spacing + 1) * config.samplingRate > 1000

(***************************************************************************)
(* The Demo page's producer: the effect seeds the buffer and starts an     *)
(* interval timer whose callback appends a batch and evicts by age.        *)
(***************************************************************************)
SeedDurationMs == 12000
TickDurationMs == 200
RetentionMs == 12000
IntervalMs == 100

DemoStartTimes == {100000, 100950}

\* how much later than its 100 ms period a tick may fire: on time, or after
\* the page was held up (a throttled background tab) for most of the horizon
TickLateness == {0, 11900}

\* how long after generateMockECG read the clock the state updater reads it
\* again.  React runs the updater inside setData when the hook has no pending
\* update and otherwise in the render it schedules, a task the browser may
\* hold up (a frozen or suspended page) for any length of time.
UpdaterDelays == {0, 1, 11000}

\* line 21: prev.filter(point => point.timestamp > cutoffTime)
FilterPrev(prev, cutoffTime) ==
    SelectSeq(prev, LAMBDA point : point.timestamp > cutoffTime)

(***************************************************************************)
(* The page's life: mounts, ticks, configuration changes, unmounts, and a  *)
(* renderer that keeps the array it was handed.  SpecDemo follows one      *)
(* mount and its ticks under every timing; SpecLifecycle follows every     *)
(* interleaving of the life's events with the ticks on time.               *)
(***************************************************************************)
\* ECGControls: the values the time-scale select passes on
\* (parseInt of "25", "50" and "12.5")
TimeScales == {25, 50, 12}

MaxEffects == 2

\* line 13: setData(initialData)
SetDataMutantAppend(prev, initialData) == prev \o initialData
SetData(prev, initialData) == initialData

\* line 26: clearInterval(interval)
ClearIntervalMutantNothing(timers, handle) == timers
ClearInterval(timers, handle) == {t \in timers : t.id # handle}

\* lines 21-22: what the updater leaves in an array that already exists.
\* prev.filter(...) and [...filteredPrev, ...newData] each build a new array;
\* no existing array is written to.
ArrayAfterUpdateMutantInPlace(array, arrayId, prevId, result) ==
    IF arrayId = prevId THEN result ELSE array
ArrayAfterUpdate(array, arrayId, prevId, result) == array

\* the origins of the samples prev.filter keeps (line 21)
FilterOrigins(prev, origins, cutoffTime) ==
    LET both == [k \in 1 .. Len(prev) |->
                    [point |-> prev[k], origin |-> origins[k]]]
        kept == SelectSeq(both, LAMBDA b : b.point.timestamp > cutoffTime)
    IN [k \in 1 .. Len(kept) |-> kept[k].origin]

Origins(batch, origin) == [k \in 1 .. Len(batch) |-> origin]

InitDemo ==
    /\ now \in DemoStartTimes
    /\ rngState \in RngStates
    /\ DemoIdle
    /\ SynthIdle
    /\ DecimateIdle
    /\ ViewIdle
    /\ pc = "unmounted"

\* lines 7-16 and 24: the page is mounted (with fresh state) and the effect
\* generates the initial data, sets it, and starts the interval
MountEffect ==
    /\ pc = "unmounted"
    /\ nextTimer <= MaxEffects
    /\ config' = DEFAULT_CONFIG
    /\ configId' = 0
    /\ effectConfigId' = 0
    /\ data' = SetData(<<>>, generateMockECG(SeedDurationMs,
                                             config'.samplingRate, now, rngState))
    /\ dataOrigin' = Origins(data', nextTimer)
    /\ dataId' = dataId + 1
    /\ rngState' = AdvanceRng(rngState, SamplesCount(SeedDurationMs, config'.samplingRate))
    /\ activeTimers' = activeTimers \cup {[id |-> nextTimer, config |-> config']}
    /\ interval' = nextTimer
    /\ nextTimer' = nextTimer + 1
    /\ pc' = "mounted"
    /\ UNCHANGED <<viewVars, now, ticks, dataRef, refArray, synthVars,
                   decimateVars>>

\* lines 16-24: one firing of the interval callback of a timer that has not
\* been cleared, `late` ms (one of latenesses) after its period.
\* generateMockECG reads the clock first; the state updater reads it again,
\* `delay` ms later (one of delays), for the cutoff.  The clock is left at the
\* updater's reading.
TickWith(latenesses, delays) ==
    /\ ticks < MaxTicks
    /\ \E timer \in activeTimers, late \in latenesses, delay \in delays :
          LET generatedAt == now + IntervalMs + late
              newData == generateMockECG(TickDurationMs, timer.config.samplingRate,
                                         generatedAt, rngState)
              referenceNow == generatedAt + delay
              cutoffTime == referenceNow - RetentionMs
              filteredPrev == FilterPrev(data, cutoffTime)
          IN /\ data' = filteredPrev \o newData
             /\ dataOrigin' = FilterOrigins(data, dataOrigin, cutoffTime)
                                  \o Origins(newData, timer.id)
             /\ refArray' = IF dataRef = <<>>
                            THEN refArray
                            ELSE ArrayAfterUpdate(refArray, dataRef[1].id,
                                                  dataId, data')
             /\ now' = referenceNow
             /\ rngState' = AdvanceRng(rngState,
                                SamplesCount(TickDurationMs,
                                             timer.config.samplingRate))
    /\ dataId' = dataId + 1
    /\ ticks' = ticks + 1
    /\ UNCHANGED <<viewVars, config, interval, configId, effectConfigId,
                   activeTimers, nextTimer, dataRef, pc, synthVars,
                   decimateVars>>

\* line 48: onConfigChange={setConfig}; ECGControls passes a new object,
\* here with another time scale
ConfigChange ==
    /\ pc = "mounted"
    /\ configId < MaxEffects - 1
    /\ \E timeScale \in TimeScales \ {config.timeScale} :
          config' = [config EXCEPT !.timeScale = timeScale]
    /\ configId' = configId + 1
    /\ UNCHANGED <<viewVars, now, rngState, data, interval, ticks,
                   effectConfigId, activeTimers, nextTimer, dataOrigin, dataId,
                   dataRef, refArray, pc, synthVars, decimateVars>>

\* lines 10-27: `config` differs from the one the effect last ran with, so
\* React runs the cleanup of that run (line 26) and then the effect again
EffectRerun ==
    /\ pc = "mounted"
    /\ effectConfigId # configId
    /\ nextTimer <= MaxEffects
    /\ effectConfigId' = configId
    /\ data' = SetData(data, generateMockECG(SeedDurationMs,
                                             config.samplingRate, now, rngState))
    /\ dataOrigin' = Origins(data', nextTimer)
    /\ dataId' = dataId + 1
    /\ rngState' = AdvanceRng(rngState, SamplesCount(SeedDurationMs, config.samplingRate))
    /\ activeTimers' = ClearInterval(activeTimers, interval)
                           \cup {[id |-> nextTimer, config |-> config]}
    /\ interval' = nextTimer
    /\ nextTimer' = nextTimer + 1
    /\ UNCHANGED <<viewVars, now, config, ticks, configId, dataRef, refArray,
                   pc, synthVars, decimateVars>>

\* line 26: the page is unmounted; React runs the cleanup of the last run
Unmount ==
    /\ pc = "mounted"
    /\ activeTimers' = ClearInterval(activeTimers, interval)
    /\ pc' = "unmounted"
    /\ UNCHANGED <<viewVars, now, rngState, config, data, interval, ticks,
                   configId, effectConfigId, nextTimer, dataOrigin, dataId,
                   dataRef, refArray, synthVars, decimateVars>>

\* ecg-viz/index.ts:43-45: a renderer is handed the array in `data` and
\* keeps the reference (dataRef.current = data)
ObserveData ==
    /\ pc = "mounted"
    /\ IF dataRef = <<>> THEN TRUE ELSE dataRef[1].id # dataId
    /\ dataRef' = <<[id |-> dataId, seen |-> data]>>
    /\ refArray' = data
    /\ UNCHANGED <<viewVars, now, rngState, config, data, interval, ticks,
                   configId, effectConfigId, activeTimers, nextTimer,
                   dataOrigin, dataId, pc, synthVars, decimateVars>>

\* a tick of a page that is or was held up
Tick == TickWith(TickLateness, UpdaterDelays)

\* a tick of a page that runs its timers and its updates on time
OnTime == {0}

TickOnTime == TickWith(OnTime, OnTime)

NextDemo == MountEffect \/ Tick

SpecDemo == InitDemo /\ [][NextDemo]_vars

NextLifecycle ==
    \/ MountEffect
    \/ TickOnTime
    \/ ConfigChange
    \/ EffectRerun
    \/ Unmount
    \/ ObserveData

\* the life is followed from one start of the page: what it does to timers
\* and arrays depends neither on the second it starts in nor on the noise
InitLifecycle ==
    /\ InitDemo
    /\ now = 100000
    /\ rngState = 0

SpecLifecycle == InitLifecycle /\ [][NextLifecycle]_vars

\* C18: when the configuration changes, the old configuration's producer
\* is stopped and the buffer is replaced wholesale by a freshly synthesized
\* seed for the new configuration: once the effect has run for the new
\* configuration the buffer holds no sample seeded or appended by an earlier
\* run, and the only timer left is the new run's, so no tick of the old
\* producer writes to the buffer.
C18_ConfigChangeSwapsBuffer ==
    /\ [][effectConfigId' # effectConfigId =>
             data' = generateMockECG(SeedDurationMs, config'.samplingRate,
                                     now, rngState)]_vars
    /\ []((pc = "mounted" /\ effectConfigId = configId) =>
             /\ \A k \in 1 .. Len(dataOrigin) : dataOrigin[k] = interval
             /\ \A t \in activeTimers : t.id = interval /\ t.config = config)

C18_Witness ==
    /\ pc = "mounted"
    /\ configId = 1
    /\ effectConfigId = 1
    /\ interval = 2
    /\ ticks = 3
    /\ Len(data) > SamplesCount(SeedDurationMs, config.samplingRate)
    /\ dataOrigin[Len(dataOrigin)] = 2
    /\ activeTimers = {[id |-> 2, config |-> config]}

\* C19: across any sequence of mounts, configuration changes and unmounts
\* of the demo page at most one producer interval timer is active at any
\* time, and after unmount none is active and the buffer is not written.
C19_OneProducerTimer ==
    /\ [](Cardinality(activeTimers) <= 1)
    /\ [](pc = "unmounted" => activeTimers = {})
    /\ [][(pc = "unmounted" /\ pc' = "unmounted") =>
             UNCHANGED <<data, dataId>>]_vars

C19_Witness ==
    /\ pc = "unmounted"
    /\ nextTimer = 3
    /\ configId = 1
    /\ effectConfigId = 1
    /\ ticks >= 1
    /\ activeTimers = {}

\* C20: a producer tick never modifies in place an array that was handed to
\* a renderer: the array a reader holds has, after every later tick, the
\* length and the elements the reader saw.
C20_ObservedArrayNeverModified ==
    dataRef # <<>> => refArray = dataRef[1].seen

C20_Witness ==
    /\ dataRef # <<>>
    /\ dataRef[1].id = 1
    /\ dataId = 3
    /\ ticks = 2
    /\ data # refArray
    /\ refArray = dataRef[1].seen

\* C1: after the seed and any sequence of producer appends, the buffer is
\* in non-decreasing timestamp order (a batch that starts below the
\* buffer's maximum timestamp being merged or rejected).
C1_BufferTimeOrdered == TimeOrdered(data)

\* C2: immediately after every append no sample of the buffer, retained or
\* just appended, has a timestamp <= referenceNow - retentionHorizonMs,
\* referenceNow being the clock reading of that append.
C2_NoExpiredSampleAfterAppend ==
    ticks > 0 =>
        \A k \in 1 .. Len(data) : data[k].timestamp > now - RetentionMs

(***************************************************************************)
(* The timeline ECGDisplay (ecg-display.tsx:14-197): thirty rows of 60 s,  *)
(* each of three 20 s segments, on a canvas inside a scrolling container.  *)
(* A click selects a segment and hands its samples to onSegmentSelect.     *)
(*                                                                         *)
(* Pixel positions are fractional in the browser.  The horizontal click    *)
(* position is carried in sixths of a CSS pixel (x6 = 6 * x), which holds  *)
(* the centre of every third of an integer width exactly; vertical         *)
(* positions are whole pixels.  window.devicePixelRatio is carried in      *)
(* halves.                                                                 *)
(***************************************************************************)
rowHeight == 120
timeWindow == 60
totalDuration == 1800
segmentSeconds == 20
rowSegments == 3

\* line 27: const rows = Math.ceil(totalDuration / timeWindow);
rows == (totalDuration + timeWindow - 1) \div timeWindow

\* line 72: canvas.width = width * dpr; the attribute keeps the integer part
CanvasWidth(width, dpr2) == (width * dpr2) \div 2

\* line 37: const y = event.clientY - rect.top + container.scrollTop;
\* pointerY is event.clientY - rect.top
ClickYMutantNoScroll(pointerY, scroll) == pointerY
ClickY(pointerY, scroll) == pointerY + scroll

\* line 39: const row = Math.floor(y / rowHeight);
Row(y) == y \div rowHeight

\* lines 40-43: width = canvas.width / devicePixelRatio;
\* timePerPixel = timeWindow / width; clickTime = x * timePerPixel;
\* segment = Math.floor(clickTime / 20), with x = x6 / 6 and
\* devicePixelRatio = dpr2 / 2
Segment(x6, cw, dpr2) ==
    (x6 * dpr2 * timeWindow) \div (6 * 2 * cw * segmentSeconds)

\* line 44: const newSelectedSegment = row * 3 + segment;
NewSelectedSegment(row, segment) == row * rowSegments + segment

\* line 49: Date.now() - (totalDuration * 1000)
\*              + (row * timeWindow + segment * 20) * 1000
SegmentStartTime(t, row, segment) ==
    t - (totalDuration * 1000)
      + (row * timeWindow + segment * segmentSeconds) * 1000

\* line 50: const segmentEndTime = segmentStartTime + 20000;
SegmentEndTime(segmentStartTime) == segmentStartTime + segmentSeconds * 1000

\* lines 52-54: data.filter(point => point.timestamp >= segmentStartTime
\*                                   && point.timestamp < segmentEndTime)
FilterSegmentMutantClosed(d, segmentStartTime, segmentEndTime) ==
    SelectSeq(d, LAMBDA point : point.timestamp >= segmentStartTime
                                   /\ point.timestamp <= segmentEndTime)
FilterSegment(d, segmentStartTime, segmentEndTime) ==
    SelectSeq(d, LAMBDA point : point.timestamp >= segmentStartTime
                                   /\ point.timestamp < segmentEndTime)

(***************************************************************************)
(* SpecTimeline: the mounted timeline with a small buffer as its data      *)
(* prop; the user scrolls, the container is resized, time passes, and one  *)
(* click is handled.                                                       *)
(***************************************************************************)
TimelineNows == {1800000, 1800001}

\* the timestamps of the buffer: the start and the end of the first segment
\* of the timeline at the first clock reading (1 ms before its start and its
\* end at the second)
BufferTimestamps == {0, 20000}

TimelineBuffers ==
    SeqsUpTo([value : {0}, timestamp : BufferTimestamps], 2)

ClientWidths == {300, 601}
DevicePixelRatios == {2, 3}

\* the scroll positions of a 600 px viewport over the 3600 px canvas
ScrollTops == {0, 60, 3000}

\* click positions on the canvas: the top and the middle pixel of every row
PointerYs == {r * rowHeight + off : r \in 0 .. rows - 1, off \in {0, 60}}

\* in sixths of a pixel: the centre of each third and the right edge
PointerX6s(width) ==
    {width, 3 * width, 5 * width, 6 * width - 1}

InitTimeline ==
    /\ now = 1800000
    /\ rngState = 0
    /\ config = DEFAULT_CONFIG
    /\ data \in TimelineBuffers
    /\ interval = 0
    /\ ticks = 0
    /\ ProducerIdle
    /\ SynthIdle
    /\ DecimateIdle
    /\ pc = "mounted"
    /\ scrollTop = 0
    /\ clientWidth \in ClientWidths
    /\ dprHalves \in DevicePixelRatios
    /\ canvasWidth = CanvasWidth(clientWidth, dprHalves)
    /\ selectedSegment = <<>>
    /\ onSegmentSelect \in BOOLEAN
    /\ selectCalls = 0
    /\ lastSelection = <<>>
    /\ click = <<>>
    /\ renderedAt = now
    /\ FrameIdle
    /\ RenderIdle

\* the user scrolls the container
Scroll ==
    /\ \E s \in ScrollTops : s # scrollTop /\ scrollTop' = s
    /\ UNCHANGED <<now, rngState, demoVars, synthVars, decimateVars, pc,
                   frameVars, renderVars,
                   clientWidth, dprHalves, canvasWidth, selectedSegment,
                   onSegmentSelect, selectCalls, lastSelection, click,
                   renderedAt>>

\* lines 65-73 and 173: the ResizeObserver runs updateCanvas
Resize ==
    /\ \E w \in ClientWidths : w # clientWidth /\ clientWidth' = w
    /\ canvasWidth' = CanvasWidth(clientWidth', dprHalves)
    /\ renderedAt' = now
    /\ UNCHANGED <<now, rngState, demoVars, synthVars, decimateVars, pc,
                   frameVars, renderVars,
                   scrollTop, dprHalves, selectedSegment, onSegmentSelect,
                   selectCalls, lastSelection, click>>

\* the clock advances
TimePasses ==
    /\ \E t \in TimelineNows : t > now /\ now' = t
    /\ UNCHANGED <<rngState, demoVars, synthVars, decimateVars, pc, viewVars>>

\* lines 30-58: handleCanvasClick; the new selectedSegment is a dependency of
\* the effect (line 179), which runs updateCanvas again in the same commit
HandleCanvasClick ==
    /\ click = <<>>
    /\ \E pointerY \in PointerYs, x6 \in PointerX6s(clientWidth) :
          LET y == ClickY(pointerY, scrollTop)
              row == Row(y)
              segment == Segment(x6, canvasWidth, dprHalves)
              newSelectedSegment == NewSelectedSegment(row, segment)
              segmentStartTime == SegmentStartTime(now, row, segment)
              segmentEndTime == SegmentEndTime(segmentStartTime)
              segmentData == FilterSegment(data, segmentStartTime, segmentEndTime)
          IN /\ click' = <<[x6 |-> x6, pointerY |-> pointerY, at |-> now,
                             scrollTop |-> scrollTop,
                             clientWidth |-> clientWidth,
                             renderedAt |-> renderedAt]>>
             /\ selectedSegment' = <<newSelectedSegment>>
             /\ renderedAt' = now
             /\ IF onSegmentSelect
                THEN /\ selectCalls' = selectCalls + 1
                     /\ lastSelection' = <<[index |-> newSelectedSegment,
                                            data |-> segmentData]>>
                ELSE UNCHANGED <<selectCalls, lastSelection>>
    /\ UNCHANGED <<now, rngState, demoVars, synthVars, decimateVars, pc,
                   frameVars, renderVars,
                   scrollTop, clientWidth, dprHalves, canvasWidth,
                   onSegmentSelect>>

NextTimeline == Scroll \/ Resize \/ TimePasses \/ HandleCanvasClick

SpecTimeline == InitTimeline /\ [][NextTimeline]_vars

(***************************************************************************)
(* What the claims about the click mapping speak of.                       *)
(***************************************************************************)
Clicked == click # <<>>

\* the row the handled click computes
ClickedRow == (click[1].pointerY + click[1].scrollTop) \div rowHeight

\* the click is at the pixel centre of segment k: x in the middle of the
\* segment's third of the row width, y in the middle of its row minus the
\* scroll offset
AtCentreOf(k) ==
    /\ click[1].x6 = (2 * (k % rowSegments) + 1) * click[1].clientWidth
    /\ click[1].pointerY
          = (k \div rowSegments) * rowHeight + (rowHeight \div 2)
               - click[1].scrollTop

\* the reference: a linear scan of the buffer for t0 <= timestamp < t1
RECURSIVE LinearScan(_, _, _, _)
LinearScan(d, i, t0, t1) ==
    IF i > Len(d)
    THEN <<>>
    ELSE IF t0 <= d[i].timestamp /\ d[i].timestamp < t1
         THEN <<d[i]>> \o LinearScan(d, i + 1, t0, t1)
         ELSE LinearScan(d, i + 1, t0, t1)

C13_OutOfRangeClickIsNoOp ==
    (Clicked /\ ClickedRow \notin 0 .. rows - 1) =>
        /\ selectedSegment = <<>>
        /\ selectCalls = 0

\* C14: on a click with onSegmentSelect given, the callback is invoked
\* exactly once, with index the newly selected segment id and with data
\* exactly the buffer's samples with segmentStart <= timestamp <
\* segmentStart + 20000 ms, in buffer order, as a linear scan finds them.
C14_CallbackGetsSegmentSamples ==
    (Clicked /\ onSegmentSelect) =>
        /\ selectCalls = 1
        /\ lastSelection # <<>>
        /\ <<lastSelection[1].index>> = selectedSegment
        /\ LET segmentStart == click[1].at - 1800000
                                   + 20000 * lastSelection[1].index
           IN lastSelection[1].data
                  = LinearScan(data, 1, segmentStart, segmentStart + 20000)

C14_Witness ==
    /\ Clicked
    /\ onSegmentSelect
    /\ selectCalls = 1
    /\ Len(data) = 2
    /\ data[1].timestamp = click[1].at - 1800000 + 20000
    /\ data[2].timestamp = click[1].at - 1800000
    /\ lastSelection = <<[index |-> 0, data |-> <<data[2]>>]>>

(***************************************************************************)
(* Animation frames.  requestAnimationFrame(callback) queues the callback  *)
(* and returns a fresh positive handle; the browser runs a queued callback *)
(* once, with the frame's timestamp, unless cancelAnimationFrame(handle)   *)
(* removes it first.  Frame timestamps are carried in hundredths of a      *)
(* millisecond.                                                            *)
(***************************************************************************)
MaxFrames == 6

\* the gaps between animation frames: a 120 Hz display, a 60 Hz display, and
\* a frame every 33 ms
FrameGaps == {800, 1667, 3300}

Handles(pending) == {f.handle : f \in pending}

RequestAnimationFrameMutantDropped(pending, handle, effect) == pending
RequestAnimationFrame(pending, handle, effect) ==
    pending \cup {[handle |-> handle, effect |-> effect]}

CancelAnimationFrame(pending, handle) ==
    {f \in pending : f.handle # handle}

(***************************************************************************)
(* RealtimeECGDisplay (ecg-viz/index.ts:32-158, 60 fps; the variant with   *)
(* a 33 ms threshold and the effect dependencies [data, config] is the     *)
(* other RealtimeECGDisplay).                                              *)
(***************************************************************************)
\* index.ts:66: timestamp - lastRenderTimeRef.current < 16.67, and < 33 in
\* the 30 fps variant
TargetIntervals == {1667, 3300}

SkipFrameMutantNever(timestamp, lastRenderTime, target) == FALSE
SkipFrame(timestamp, lastRenderTime, target) ==
    timestamp - lastRenderTime < target

\* index.ts:131-133 and 140-142: if (animationFrameRef.current)
\*     cancelAnimationFrame(animationFrameRef.current);
CancelCurrentMutantNothing(pending, current) == pending
CancelCurrent(pending, current) ==
    IF current # 0 THEN CancelAnimationFrame(pending, current) ELSE pending

\* index.ts:79: const currentData = dataRef.current, by its identity
CurrentData(ref) == IF ref = <<>> THEN -1 ELSE ref[1].id

InitRealtime ==
    /\ now = 0
    /\ rngState = 0
    /\ DemoIdle
    /\ SynthIdle
    /\ DecimateIdle
    /\ TimelineIdle
    /\ RenderIdle
    /\ pc = "unmounted"
    /\ pendingFrames = {}
    /\ nextHandle = 1
    /\ animationFrameRef = 0
    /\ animationFrame = 0
    /\ lastRenderTimeRef = 0
    /\ effectGen = 0
    /\ effectActive = FALSE
    /\ frameClock = 0
    /\ frames = 0
    /\ drawTimes = <<>>
    /\ targetInterval \in TargetIntervals
    /\ lastDrawnData = -1

\* index.ts:41-137: the component mounts (again after a cleanup): useRef(data)
\* and the effect of lines 43-45 leave the data prop in dataRef, and the
\* effect of line 47 runs: line 128 requests the first frame
RealtimeEffect ==
    /\ ~effectActive
    /\ nextHandle <= MaxFrames
    /\ effectGen' = effectGen + 1
    /\ effectActive' = TRUE
    /\ pendingFrames' = RequestAnimationFrame(pendingFrames, nextHandle, effectGen')
    /\ animationFrameRef' = nextHandle
    /\ nextHandle' = nextHandle + 1
    /\ dataRef' = <<[id |-> dataId, seen |-> data]>>
    /\ pc' = "mounted"
    /\ UNCHANGED <<now, rngState, config, data, interval, ticks, configId,
                   effectConfigId, activeTimers, nextTimer, dataOrigin, dataId,
                   refArray, synthVars, decimateVars,
                   timelineVars, renderVars, animationFrame, lastRenderTimeRef, frameClock,
                   frames, drawTimes, targetInterval,
                   lastDrawnData>>

\* index.ts:65-126: the browser runs a queued renderFrame
RealtimeRenderFrame ==
    /\ nextHandle <= MaxFrames
    /\ \E f \in pendingFrames, gap \in FrameGaps :
          LET timestamp == frameClock + gap
          IN /\ frameClock' = timestamp
             /\ IF SkipFrame(timestamp, lastRenderTimeRef, targetInterval)
                THEN UNCHANGED <<lastRenderTimeRef, drawTimes, lastDrawnData>>
                ELSE /\ lastRenderTimeRef' = timestamp
                     /\ lastDrawnData' = CurrentData(dataRef)
                     /\ drawTimes' = IF drawTimes = <<>>
                                     THEN <<timestamp>>
                                     ELSE <<drawTimes[Len(drawTimes)], timestamp>>
             /\ pendingFrames' = RequestAnimationFrame(pendingFrames \ {f},
                                                       nextHandle, f.effect)
    /\ animationFrameRef' = nextHandle
    /\ nextHandle' = nextHandle + 1
    /\ frames' = frames + 1
    /\ UNCHANGED <<now, rngState, demoVars, synthVars, decimateVars, pc,
                   timelineVars, renderVars, animationFrame, effectGen, effectActive,
                   targetInterval>>

\* index.ts:130-135: the ResizeObserver callback of the running effect
RealtimeResize ==
    /\ effectActive
    /\ nextHandle <= MaxFrames
    /\ pendingFrames' = RequestAnimationFrame(
                            CancelCurrent(pendingFrames, animationFrameRef),
                            nextHandle, effectGen)
    /\ animationFrameRef' = nextHandle
    /\ nextHandle' = nextHandle + 1
    /\ UNCHANGED <<now, rngState, demoVars, synthVars, decimateVars, pc,
                   timelineVars, renderVars, animationFrame, lastRenderTimeRef, effectGen,
                   effectActive, frameClock, frames, drawTimes, targetInterval,
                   lastDrawnData>>

\* index.ts:139-144: the cleanup of the effect, on unmount; it may run again
\* (an idempotent stop)
RealtimeCleanup ==
    /\ effectGen > 0
    /\ pendingFrames' = CancelCurrent(pendingFrames, animationFrameRef)
    /\ effectActive' = FALSE
    /\ pc' = "unmounted"
    /\ UNCHANGED <<now, rngState, demoVars, synthVars, decimateVars,
                   timelineVars, renderVars, nextHandle, animationFrameRef, animationFrame,
                   lastRenderTimeRef, effectGen, frameClock, frames, drawTimes,
                   targetInterval,
                   lastDrawnData>>

\* index.ts:145: a dependency of the effect changed ([config], or
\* [data, config] in the variant): React runs the cleanup and then the
\* effect again, in one commit
RealtimeDepsChange ==
    /\ effectActive
    /\ nextHandle <= MaxFrames
    /\ effectGen' = effectGen + 1
    /\ pendingFrames' = RequestAnimationFrame(
                            CancelCurrent(pendingFrames, animationFrameRef),
                            nextHandle, effectGen')
    /\ animationFrameRef' = nextHandle
    /\ nextHandle' = nextHandle + 1
    /\ UNCHANGED <<now, rngState, demoVars, synthVars, decimateVars, pc,
                   timelineVars, renderVars, animationFrame, lastRenderTimeRef,
                   effectActive, frameClock, frames, drawTimes, targetInterval,
                   lastDrawnData>>

\* index.ts:41-45: the parent passes another array as the data prop; the
\* effect with the dependency [data] stores it in dataRef.current.  No frame
\* is requested or cancelled.
RealtimeDataUpdate ==
    /\ effectActive
    /\ dataId < MaxTicks
    /\ dataId' = dataId + 1
    /\ dataRef' = <<[id |-> dataId', seen |-> data]>>
    /\ UNCHANGED <<now, rngState, config, data, interval, ticks, configId,
                   effectConfigId, activeTimers, nextTimer, dataOrigin,
                   refArray, synthVars, decimateVars, pc, viewVars>>

NextRealtime ==
    \/ RealtimeEffect
    \/ RealtimeRenderFrame
    \/ RealtimeResize
    \/ RealtimeCleanup
    \/ RealtimeDepsChange
    \/ RealtimeDataUpdate

SpecRealtime == InitRealtime /\ [][NextRealtime]_vars

\* C15: in RealtimeECGDisplay, for every interleaving of frames, resize
\* notifications and effect cleanups, at most one renderFrame callback is
\* pending at any moment, a pending callback belongs to the current run of
\* the effect, and after the cleanup (run once or repeatedly) no renderFrame
\* callback is pending, so none runs again.
C15_OnePendingFrameNoneAfterCleanup ==
    /\ Cardinality(pendingFrames) <= 1
    /\ \A f \in pendingFrames : f.effect = effectGen
    /\ ~effectActive => pendingFrames = {}

C15_Witness ==
    /\ effectGen >= 2
    /\ frames >= 1
    /\ animationFrameRef >= 4
    /\ ~effectActive
    /\ pendingFrames = {}

\* a step in which renderFrame ran with a timestamp less than the target
\* interval after the last drawn frame
SkippedFrameStep ==
    /\ frames' = frames + 1
    /\ frameClock' - lastRenderTimeRef < targetInterval

\* C17: in the real-time strip's draw loop a frame whose timestamp is less
\* than the target interval (16.67 ms, or 33 ms in the 30 fps variant) after
\* the last drawn frame draws nothing, leaves the last-render time unchanged
\* and reschedules itself; hence two consecutive draws are at least the
\* target interval apart.
C17_FrameSkipKeepsDrawsApart ==
    /\ [][SkippedFrameStep =>
             /\ drawTimes' = drawTimes
             /\ lastRenderTimeRef' = lastRenderTimeRef
             /\ animationFrameRef' \in Handles(pendingFrames')
             /\ animationFrameRef' \notin Handles(pendingFrames)]_vars
    /\ [](Len(drawTimes) = 2 => drawTimes[2] - drawTimes[1] >= targetInterval)

C17_Witness ==
    /\ targetInterval = 1667
    /\ frames = 3
    /\ drawTimes = <<1667, 4134>>
    /\ lastRenderTimeRef = 4134
    /\ animationFrameRef \in Handles(pendingFrames)

(***************************************************************************)
(* The animation-loop ECGDisplay (the ECGDisplay whose effect starts a     *)
(* render function that requests its own next frame).  The effect keeps    *)
(* the handle of the first request in the constant animationFrame; the     *)
(* handles of the requests made by render are dropped.                     *)
(***************************************************************************)
InitLoop ==
    /\ now = 0
    /\ rngState = 0
    /\ DemoIdle
    /\ SynthIdle
    /\ DecimateIdle
    /\ ViewIdle
    /\ pc = "unmounted"

\* the effect runs: const animationFrame = requestAnimationFrame(render);
LoopEffect ==
    /\ ~effectActive
    /\ nextHandle <= MaxFrames
    /\ effectGen' = effectGen + 1
    /\ effectActive' = TRUE
    /\ pendingFrames' = RequestAnimationFrame(pendingFrames, nextHandle, effectGen')
    /\ animationFrame' = nextHandle
    /\ nextHandle' = nextHandle + 1
    /\ pc' = "mounted"
    /\ UNCHANGED <<now, rngState, demoVars, synthVars, decimateVars,
                   timelineVars, renderVars, animationFrameRef, lastRenderTimeRef,
                   frameClock, frames, drawTimes, targetInterval,
                   lastDrawnData>>

\* the browser runs a queued render, which draws and ends with
\* requestAnimationFrame(render);
LoopRender ==
    /\ nextHandle <= MaxFrames
    /\ \E f \in pendingFrames :
          pendingFrames' = RequestAnimationFrame(pendingFrames \ {f},
                                                 nextHandle, f.effect)
    /\ nextHandle' = nextHandle + 1
    /\ frames' = frames + 1
    /\ UNCHANGED <<now, rngState, demoVars, synthVars, decimateVars, pc,
                   timelineVars, renderVars, animationFrameRef, animationFrame,
                   lastRenderTimeRef, effectGen, effectActive, frameClock,
                   drawTimes, targetInterval,
                   lastDrawnData>>

\* the cleanup of the effect, on unmount:
\* return () => cancelAnimationFrame(animationFrame);
LoopCleanup ==
    /\ effectActive
    /\ pendingFrames' = CancelAnimationFrame(pendingFrames, animationFrame)
    /\ effectActive' = FALSE
    /\ pc' = "unmounted"
    /\ UNCHANGED <<now, rngState, demoVars, synthVars, decimateVars,
                   timelineVars, renderVars, nextHandle, animationFrameRef, animationFrame,
                   lastRenderTimeRef, effectGen, frameClock, frames, drawTimes,
                   targetInterval,
                   lastDrawnData>>

\* a dependency of the effect changed ([data, config, width, height]): the
\* cleanup, then the effect again, in one commit
LoopDepsChange ==
    /\ effectActive
    /\ nextHandle <= MaxFrames
    /\ effectGen' = effectGen + 1
    /\ pendingFrames' = RequestAnimationFrame(
                            CancelAnimationFrame(pendingFrames, animationFrame),
                            nextHandle, effectGen')
    /\ animationFrame' = nextHandle
    /\ nextHandle' = nextHandle + 1
    /\ UNCHANGED <<now, rngState, demoVars, synthVars, decimateVars, pc,
                   timelineVars, renderVars, animationFrameRef, lastRenderTimeRef,
                   effectActive, frameClock, frames, drawTimes, targetInterval,
                   lastDrawnData>>

NextLoop == LoopEffect \/ LoopRender \/ LoopCleanup \/ LoopDepsChange

SpecLoop == InitLoop /\ [][NextLoop]_vars

\* C16: in the animation-loop ECGDisplay, after the effect's cleanup has run
\* (on a data or configuration change or on unmount) no render callback
\* started by that effect remains scheduled, so at most one render loop is
\* alive after any number of data updates.
C16_NoRenderLoopSurvivesCleanup ==
    /\ \A f \in pendingFrames : effectActive /\ f.effect = effectGen
    /\ Cardinality(pendingFrames) <= 1

(***************************************************************************)
(* Render passes.  A canvas is described by what a pass leaves on it:      *)
(* whether the background fill and the grid were drawn, the timeline rows  *)
(* drawn, and the operations of the trace path.  A path operation names    *)
(* the samples it joins by their positions in the sequence the trace loop  *)
(* iterates (`from` is 0 for a moveTo).                                    *)
(***************************************************************************)
Renderers == {"timeline", "realtime", "detail", "detailContainer"}

\* a canvas nothing was drawn on
BlankSurface == [background |-> FALSE, grid |-> FALSE, rows |-> {}, path |-> <<>>]

\* ecg-display.tsx:186: <ScrollArea className="h-[600px]" ...>
clientHeight == 600

\* x >= 0 && x <= width, for x = ((timestamp - origin) / 1000) * timeScale *
\* pixelsPerMm and pixelsPerMm = width / (timeScale * timeWindow), that is
\* x = (timestamp - origin) * width / windowMs
InView(timestamp, origin, windowMs) ==
    timestamp - origin >= 0 /\ timestamp - origin <= windowMs

Clipped(pts, origin, windowMs) ==
    [k \in 1 .. Len(pts) |-> InView(pts[k].timestamp, origin, windowMs)]

\* the forEach of a trace loop: inView[k] is the clip test of sample k,
\* lastPoint is 0 for null
RECURSIVE TraceLoop(_, _, _, _, _, _)
TraceLoop(inView, k, isFirstPoint, lastPoint, row, path) ==
    IF k > Len(inView)
    THEN path
    ELSE IF inView[k]
         THEN IF isFirstPoint
              THEN TraceLoop(inView, k + 1, FALSE, k, row,
                       Append(path, [op |-> "moveTo", from |-> 0, to |-> k, row |-> row]))
              ELSE IF lastPoint # 0
                   THEN TraceLoop(inView, k + 1, FALSE, k, row,
                            Append(path, [op |-> "lineTo", from |-> lastPoint,
                                          to |-> k, row |-> row]))
                   ELSE TraceLoop(inView, k + 1, FALSE, k, row, path)
         ELSE TraceLoop(inView, k + 1, isFirstPoint, lastPoint, row, path)

\* index.ts:88-91: cutoffTime = Date.now() - 5000;
\* recentData = currentData.filter(point => point.timestamp > cutoffTime)
CutoffTime(t) == t - 5000

RecentData(currentData, t) ==
    SelectSeq(currentData, LAMBDA point : point.timestamp > CutoffTime(t))

\* index.ts:71-122: the drawing path of renderFrame
RealtimeSurface(currentData, t) ==
    LET recentData == RecentData(currentData, t)
    IN [background |-> TRUE,
        grid |-> TRUE,
        rows |-> {},
        path |-> IF Len(currentData) > 0 /\ Len(recentData) > 0
                 THEN TraceLoop(Clipped(recentData, CutoffTime(t), 5000),
                                1, TRUE, 0, 0, <<>>)
                 ELSE <<>>]

\* detailed-ecg-display.tsx:38-82: timeWindow = 20, x is taken from
\* data[0].timestamp
DetailSurface(d) ==
    [background |-> TRUE,
     grid |-> TRUE,
     rows |-> {},
     path |-> IF Len(d) > 0
              THEN TraceLoop(Clipped(d, d[1].timestamp, 20000), 1, TRUE, 0, 0, <<>>)
              ELSE <<>>]

\* part_002:22-102: the same pass behind
\* if (!canvas || !container || data.length === 0) return;
DetailContainerSurface(canvas, d) ==
    IF Len(d) = 0 THEN canvas ELSE DetailSurface(d)

\* ecg-display.tsx:88-90: visibleRows, startRow, endRow
VisibleRows(scroll) ==
    LET visibleRows == ((clientHeight + rowHeight - 1) \div rowHeight) + 1
        startRow == scroll \div rowHeight
        endRow == Min(rows, startRow + visibleRows)
    IN startRow .. endRow - 1

\* ecg-display.tsx:94-95: rowStartTime and rowEndTime, in ms
RowStartTime(t, row) == t - (totalDuration * 1000) + row * timeWindow * 1000

RowEndTime(rowStartTime) == rowStartTime + timeWindow * 1000

\* ecg-display.tsx:124-129: the samples of a row, decimated
RowTrace(d, t, row, width) ==
    decimateData(
        SelectSeq(d, LAMBDA point :
                         /\ point.timestamp >= RowStartTime(t, row)
                         /\ point.timestamp < RowEndTime(RowStartTime(t, row))),
        width \div 2)

\* ecg-display.tsx:132-167: the trace of one row
RowPath(d, t, row, width) ==
    LET decimated == RowTrace(d, t, row, width)
    IN IF Len(decimated) > 0
       THEN TraceLoop(Clipped(decimated, RowStartTime(t, row), timeWindow * 1000),
                      1, TRUE, 0, row, <<>>)
       ELSE <<>>

\* ecg-display.tsx:93-168: for (let row = startRow; row < endRow; row++)
RECURSIVE RowsLoop(_, _, _, _, _, _)
RowsLoop(d, t, row, endRow, width, path) ==
    IF row >= endRow
    THEN path
    ELSE RowsLoop(d, t, row + 1, endRow, width, path \o RowPath(d, t, row, width))

\* ecg-display.tsx:65-169: updateCanvas
TimelineSurface(d, t, scroll, width) ==
    LET drawn == VisibleRows(scroll)
    IN [background |-> TRUE,
        grid |-> drawn # {},
        rows |-> drawn,
        path |-> IF drawn = {} THEN <<>>
                 ELSE RowsLoop(d, t, scroll \div rowHeight,
                               Min(rows, (scroll \div rowHeight) + Cardinality(drawn)),
                               width, <<>>)]

RenderSurface(r, canvas, d, t, scroll, width) ==
    IF r = "timeline" THEN TimelineSurface(d, t, scroll, width)
    ELSE IF r = "realtime" THEN RealtimeSurface(d, t)
    ELSE IF r = "detail" THEN DetailSurface(d)
    ELSE DetailContainerSurface(canvas, d)

(***************************************************************************)
(* SpecRender: one of the renderers mounted over a small buffer; the       *)
(* buffer prop changes and a render pass follows each change.  The clock   *)
(* stands at 1 800 000 ms; the samples are stamped around it: before the   *)
(* strip's 5 s window, inside it, and after the clock reading (a source    *)
(* whose clock runs ahead of the browser's, or a clock stepped back).      *)
(***************************************************************************)
RenderTimestamps == {1794000, 1796000, 1798000, 1802000}

MaxBuffer == 3

RenderBuffers == SeqsUpTo([value : {0}, timestamp : RenderTimestamps], MaxBuffer)

InitRender ==
    /\ now = 1800000
    /\ rngState = 0
    /\ config = DEFAULT_CONFIG
    /\ data \in RenderBuffers
    /\ interval = 0
    /\ ticks = 0
    /\ ProducerIdle
    /\ SynthIdle
    /\ DecimateIdle
    /\ pc = "mounted"
    /\ scrollTop \in {0, 3000}
    /\ clientWidth = 300
    /\ dprHalves = 2
    /\ canvasWidth = 0
    /\ selectedSegment = <<>>
    /\ onSegmentSelect = FALSE
    /\ selectCalls = 0
    /\ lastSelection = <<>>
    /\ click = <<>>
    /\ renderedAt = 0
    /\ FrameIdle
    /\ renderer \in Renderers
    /\ surface = BlankSurface
    /\ gridX = <<>>
    /\ controlCall = <<>>

\* the effect of the component (or a drawing frame of the strip) after a
\* mount or a change of the data prop
RenderPass ==
    /\ pc \in {"mounted", "changed"}
    /\ surface' = RenderSurface(renderer, surface, data, now, scrollTop, clientWidth)
    /\ pc' = "rendered"
    /\ UNCHANGED <<now, rngState, demoVars, synthVars, decimateVars,
                   timelineVars, frameVars, renderer, gridX, controlCall>>

\* the parent passes another buffer
SetBuffer ==
    /\ pc = "rendered"
    /\ data' \in RenderBuffers \ {data}
    /\ pc' = "changed"
    /\ UNCHANGED <<now, rngState, config, interval, ticks, producerVars,
                   synthVars, decimateVars, viewVars>>

\* the user scrolls the timeline's container; the component registers no
\* scroll listener (ecg-display.tsx:171-178: only the ResizeObserver), so
\* nothing is redrawn
RenderScroll ==
    /\ renderer = "timeline"
    /\ \E s \in ScrollTops : s # scrollTop /\ scrollTop' = s
    /\ UNCHANGED <<now, rngState, demoVars, synthVars, decimateVars, pc,
                   frameVars, renderVars,
                   clientWidth, dprHalves, canvasWidth, selectedSegment,
                   onSegmentSelect, selectCalls, lastSelection, click,
                   renderedAt>>

NextRender == RenderPass \/ SetBuffer \/ RenderScroll

SpecRender == InitRender /\ [][NextRender]_vars

\* C21: for every renderer (timeline, real-time strip, detail view) a render
\* pass with an empty buffer leaves the cleared background and the grid on
\* the canvas and no trace path.
C21_EmptyBufferRendersGridOnly ==
    (pc = "rendered" /\ data = <<>>) =>
        /\ surface.background
        /\ surface.grid
        /\ surface.path = <<>>

\* C23: in the clipped trace loops, when samples fall outside [0, width] and
\* a later sample falls inside again, the path resumes there with a moveTo:
\* every lineTo joins a sample to the sample iterated right before it, never
\* the last visible sample before a gap to the re-entering one.
C23_NoLineAcrossClippedGap ==
    pc = "rendered" =>
        \A k \in 1 .. Len(surface.path) :
            surface.path[k].op = "lineTo" =>
                surface.path[k].to = surface.path[k].from + 1

(***************************************************************************)
(* The grid loops.  Lengths are floats in the code; here a float is a      *)
(* finite number of thousandths of a pixel, +Infinity or NaN, with the     *)
(* IEEE results of the operations the code applies to them.                *)
(***************************************************************************)
Num(v) == [kind |-> "num", v |-> v]

PositiveInfinity == [kind |-> "inf", v |-> 0]

NaN == [kind |-> "nan", v |-> 0]

\* a / b for integers a > 0 and b >= 0, in thousandths
FloatDiv(a, b) == IF b = 0 THEN PositiveInfinity ELSE Num((a * 1000) \div b)

\* n * f for an integer n >= 0
FloatMul(n, f) ==
    IF f.kind = "num" THEN Num(n * f.v)
    ELSE IF f.kind = "inf" /\ n # 0 THEN PositiveInfinity
    ELSE NaN

\* f + g for f, g >= 0
FloatAdd(f, g) ==
    IF f.kind = "nan" \/ g.kind = "nan" THEN NaN
    ELSE IF f.kind = "inf" \/ g.kind = "inf" THEN PositiveInfinity
    ELSE Num(f.v + g.v)

\* f < n for an integer n of pixels
FloatLess(f, n) == f.kind = "num" /\ f.v < n * 1000

\* index.ts:74-75: pixelsPerMm = width / (config.timeScale * timeWindow),
\* timeWindow = 5
PixelsPerMm(width, cfg) == FloatDiv(width, cfg.timeScale * 5)

\* ecg-utils.ts:241-271: the four loops of drawDetailedGrid
GridLoops == {"minorX", "minorY", "majorX", "majorY"}

\* the increment of a loop: config.gridSize * pixelsPerMm for the minor
\* lines, config.gridSize * 5 * pixelsPerMm for the major lines
GridStepSize(loop, cfg, pixelsPerMm) ==
    IF loop \in {"minorX", "minorY"}
    THEN FloatMul(cfg.gridSize, pixelsPerMm)
    ELSE FloatMul(cfg.gridSize * 5, pixelsPerMm)

\* index.ts:52: const height = 200
stripHeight == 200

\* the bound of a loop: x < width or y < height
GridLoopBound(loop, width) ==
    IF loop \in {"minorX", "majorX"} THEN width ELSE stripHeight

NextGridLoop(loop) ==
    IF loop = "minorX" THEN "minorY"
    ELSE IF loop = "minorY" THEN "majorX"
    ELSE IF loop = "majorX" THEN "majorY"
    ELSE "drawn"

\* the configuration the claim calls valid
ValidConfig(cfg) == cfg.samplingRate # 0 /\ cfg.timeScale # 0 /\ cfg.gridSize # 0

(***************************************************************************)
(* SpecGrid: RealtimeECGDisplay mounted with a configuration prop whose    *)
(* samplingRate, timeScale and gridSize may be 0; its effect requests a    *)
(* frame, the frame draws, and the parent may supply another               *)
(* configuration between frames.  JavaScript runs a started callback to    *)
(* its end, hence the fairness of the loop steps.                          *)
(***************************************************************************)
GridConfigs ==
    {[DEFAULT_CONFIG EXCEPT !.samplingRate = r, !.timeScale = s, !.gridSize = g] :
        r \in {0, 128}, s \in {0, 25, 50}, g \in {0, 5, 10}}

GridWidths == {250, 500}

InitGrid ==
    /\ now = 0
    /\ rngState = 0
    /\ config \in GridConfigs
    /\ data = <<>>
    /\ interval = 0
    /\ ticks = 0
    /\ ProducerIdle
    /\ SynthIdle
    /\ DecimateIdle
    /\ pc = "mounted"
    /\ scrollTop = 0
    /\ clientWidth \in GridWidths
    /\ dprHalves = 2
    /\ canvasWidth = 0
    /\ selectedSegment = <<>>
    /\ onSegmentSelect = FALSE
    /\ selectCalls = 0
    /\ lastSelection = <<>>
    /\ click = <<>>
    /\ renderedAt = 0
    /\ FrameIdle
    /\ renderer = "realtime"
    /\ surface = BlankSurface
    /\ gridX = <<>>
    /\ controlCall = <<>>

\* index.ts:46-63, 128: the effect sizes the canvas and requests renderFrame
GridEffect ==
    /\ pc = "mounted"
    /\ pc' = "pending"
    /\ UNCHANGED <<now, rngState, demoVars, synthVars, decimateVars,
                   timelineVars, frameVars, renderVars>>

\* index.ts:65-77: renderFrame fills the background, computes pixelsPerMm
\* and calls drawDetailedGrid, whose first loop starts at x = 0
GridRenderFrame ==
    /\ pc = "pending"
    /\ pc' = "minorX"
    /\ gridX' = Num(0)
    /\ surface' = [BlankSurface EXCEPT !.background = TRUE]
    /\ UNCHANGED <<now, rngState, demoVars, synthVars, decimateVars,
                   timelineVars, frameVars, renderer, controlCall>>

\* one iteration of the running loop: a line is drawn, x += step
GridStep ==
    /\ pc \in GridLoops
    /\ FloatLess(gridX, GridLoopBound(pc, clientWidth))
    /\ gridX' = FloatAdd(gridX,
                    GridStepSize(pc, config, PixelsPerMm(clientWidth, config)))
    /\ UNCHANGED <<now, rngState, demoVars, synthVars, decimateVars, pc,
                   timelineVars, frameVars, renderer, surface,
                   controlCall>>

\* the loop condition fails: the next loop starts at 0; after the last one
\* drawDetailedGrid returns and the pass goes on to its end
GridLoopExit ==
    /\ pc \in GridLoops
    /\ ~FloatLess(gridX, GridLoopBound(pc, clientWidth))
    /\ pc' = NextGridLoop(pc)
    /\ gridX' = Num(0)
    /\ surface' = IF pc' = "drawn" THEN [surface EXCEPT !.grid = TRUE] ELSE surface
    /\ UNCHANGED <<now, rngState, demoVars, synthVars, decimateVars,
                   timelineVars, frameVars, renderer, controlCall>>

\* index.ts:145: the parent supplies another configuration; the effect
\* (dependency [config]) runs again and requests a frame
GridConfigChange ==
    /\ pc = "drawn"
    /\ config' \in GridConfigs \ {config}
    /\ pc' = "pending"
    /\ UNCHANGED <<now, rngState, data, interval, ticks, producerVars,
                   synthVars, decimateVars, timelineVars, frameVars, renderVars>>

NextGrid ==
    GridEffect \/ GridRenderFrame \/ GridStep \/ GridLoopExit \/ GridConfigChange

SpecGrid ==
    /\ InitGrid
    /\ [][NextGrid]_vars
    /\ WF_vars(GridStep)
    /\ WF_vars(GridLoopExit)

InGridLoop == pc \in GridLoops

\* C22: a configuration with samplingRate = 0, timeScale = 0 or gridSize = 0
\* is invalid: no render pass or grid loop is entered with it, and every
\* render pass that is entered terminates.
C22_InvalidConfigNeverRendered ==
    /\ [](InGridLoop => ValidConfig(config))
    /\ (InGridLoop ~> pc = "drawn")

(***************************************************************************)
(* Claims about the timeline's render pass.                                *)
(***************************************************************************)
\* C24: the timeline is redrawn after every change of the buffer and after
\* every scroll, so the rows visible at the current scroll offset have been
\* drawn by the last pass.
C24_VisibleRowsAreDrawn ==
    (renderer = "timeline" /\ pc = "rendered") =>
        VisibleRows(scrollTop) \subseteq surface.rows

\* the segment within the row that the handled click selected
ClickedSegment == selectedSegment[1] - rowSegments * ClickedRow

\* C26: the 20-second range used on click to extract the segment's samples
\* is the range the renderer drew under the segment's rectangle: its start
\* is the rendered row start time plus segment * 20 s, also when the clock
\* advanced between the last render pass and the click.
C26_ClickRangeIsRenderedRange ==
    Clicked =>
        SegmentStartTime(click[1].at, ClickedRow, ClickedSegment)
            = RowStartTime(click[1].renderedAt, ClickedRow)
                  + ClickedSegment * segmentSeconds * 1000

\* C28: for a click with pointerX in [0, width] and a row in [0, 30) the
\* segment within the row is 0, 1 or 2 and the selected id row * 3 + segment
\* is in [0, 90), so different (row, segment) pairs have different ids.
C28_SegmentWithinRow ==
    (Clicked /\ ClickedRow \in 0 .. rows - 1
        /\ click[1].x6 >= 0 /\ click[1].x6 <= 6 * click[1].clientWidth) =>
        /\ ClickedSegment \in 0 .. rowSegments - 1
        /\ selectedSegment[1] \in 0 .. rows * rowSegments - 1

(***************************************************************************)
(* ECGControls.  A select hands its handler the value attribute of the     *)
(* chosen item, a string: here the sequence of its characters.  The        *)
(* slider hands an array of one number.                                    *)
(***************************************************************************)
\* ECGControls.tsx:49-51: <SelectItem value="25">, "50", "12.5"
TimeScaleOptions == {<<"2", "5">>, <<"5", "0">>, <<"1", "2", ".", "5">>}

\* ECGControls.tsx:58-60: min={5} max={20} step={1}
SliderValues == 5 .. 20

\* ECGControls.tsx:77-82: the values of the lead items
LeadOptions == {"I", "II", "III", "aVR", "aVL", "aVF"}

Digits == {"0", "1", "2", "3", "4", "5", "6", "7", "8", "9"}

DigitValue(c) ==
    CASE c = "0" -> 0 [] c = "1" -> 1 [] c = "2" -> 2 [] c = "3" -> 3
      [] c = "4" -> 4 [] c = "5" -> 5 [] c = "6" -> 6 [] c = "7" -> 7
      [] c = "8" -> 8 [] c = "9" -> 9

\* parseInt(value, 10) for a string of digits and dots: the number written
\* by the digits before the first character that is not a digit
RECURSIVE ParseIntFrom(_, _, _)
ParseIntFrom(str, k, acc) ==
    IF k > Len(str) \/ str[k] \notin Digits
    THEN acc
    ELSE ParseIntFrom(str, k + 1, 10 * acc + DigitValue(str[k]))

ParseInt(str) == ParseIntFrom(str, 1, 0)

\* lines 12-17: { ...config, timeScale: parseInt(value, 10) }
HandleTimeScaleChange(cfg, value) == [cfg EXCEPT !.timeScale = ParseInt(value)]

\* lines 19-24: { ...config, amplitude: value[0] }
HandleAmplitudeChange(cfg, value) == [cfg EXCEPT !.amplitude = value[1]]

\* lines 26-31: { ...config, leadConfiguration: value }
HandleLeadChange(cfg, value) == [cfg EXCEPT !.leadConfiguration = value]

\* the object literal with the spread copies the fields of config into a
\* new object; the object held in config is only read
ConfigAfterSpread(cfg) == cfg

(***************************************************************************)
(* SpecControls: the Demo page with its ECGControls; the operator uses the *)
(* three controls in any order, and onConfigChange is the page's           *)
(* setConfig.                                                              *)
(***************************************************************************)
MaxControls == 2

InitControls ==
    /\ now = 0
    /\ rngState = 0
    /\ DemoIdle
    /\ SynthIdle
    /\ DecimateIdle
    /\ pc = "mounted"
    /\ ViewIdle

\* a handler ran with `value` and passed `passed` to onConfigChange
ControlCall(handler, value, passed) ==
    /\ configId < MaxControls
    /\ controlCall' = <<[handler |-> handler,
                         value |-> value,
                         previous |-> config,
                         previousAfter |-> ConfigAfterSpread(config),
                         passed |-> passed,
                         previousId |-> configId,
                         passedId |-> configId + 1]>>
    /\ config' = passed
    /\ configId' = configId + 1
    /\ UNCHANGED <<now, rngState, data, interval, ticks, effectConfigId,
                   activeTimers, nextTimer, dataOrigin, dataId, dataRef,
                   refArray, synthVars, decimateVars, pc, timelineVars,
                   frameVars, renderer, surface, gridX>>

TimeScaleChange ==
    \E value \in TimeScaleOptions :
        ControlCall("timeScale", value, HandleTimeScaleChange(config, value))

AmplitudeChange ==
    \E v \in SliderValues :
        ControlCall("amplitude", <<v>>, HandleAmplitudeChange(config, <<v>>))

LeadChange ==
    \E value \in LeadOptions :
        ControlCall("lead", value, HandleLeadChange(config, value))

NextControls == TimeScaleChange \/ AmplitudeChange \/ LeadChange

SpecControls == InitControls /\ [][NextControls]_vars

\* the number an option's value attribute writes, in tenths
RECURSIVE TenthsFrom(_, _, _)
TenthsFrom(str, k, acc) ==
    IF k > Len(str) THEN 10 * acc
    ELSE IF str[k] = "."
         THEN 10 * acc + (IF k < Len(str) THEN DigitValue(str[k + 1]) ELSE 0)
         ELSE TenthsFrom(str, k + 1, 10 * acc + DigitValue(str[k]))

OptionTenths(str) == TenthsFrom(str, 1, 0)

OtherFieldsKept(call, edited) ==
    \A f \in DOMAIN call.previous \ {edited} : call.passed[f] = call.previous[f]

\* C25: each control handler calls onConfigChange with a new configuration
\* object in which the edited field is the value the operator selected (for
\* the time scale each offered option: 25, 50 and 12.5) and every other
\* field is that of the previous configuration, which is not mutated.
C25_HandlerPassesSelectedValue ==
    controlCall # <<>> =>
        LET call == controlCall[1]
        IN /\ call.passedId # call.previousId
           /\ call.previousAfter = call.previous
           /\ call.handler = "timeScale" =>
                 /\ 10 * call.passed.timeScale = OptionTenths(call.value)
                 /\ OtherFieldsKept(call, "timeScale")
           /\ call.handler = "amplitude" =>
                 /\ call.passed.amplitude = call.value[1]
                 /\ OtherFieldsKept(call, "amplitude")
           /\ call.handler = "lead" =>
                 /\ call.passed.leadConfiguration = call.value
                 /\ OtherFieldsKept(call, "leadConfiguration")

(***************************************************************************)
(* SpecRealtimeLive: the real-time strip with frames that fire for ever.   *)
(* To keep the state finite over unboundedly many frames, a handle that is *)
(* neither pending nor held in animationFrameRef is handed out again (the  *)
(* code only stores a handle and passes it to cancelAnimationFrame), and   *)
(* the frame clock is counted from the last drawn frame (renderFrame only  *)
(* uses timestamp - lastRenderTimeRef.current).  The counters frames and   *)
(* nextHandle and the record drawTimes are not kept.  Mounts and           *)
(* dependency changes are bounded by MaxEffects, buffer updates by         *)
(* MaxTicks; frames and resize notifications are not bounded.              *)
(***************************************************************************)
FreshHandle(pending, current) ==
    CHOOSE h \in 1 .. MaxFrames : h \notin Handles(pending) \cup {current}

\* index.ts:41-137: mount, as RealtimeEffect
LiveEffect ==
    /\ ~effectActive
    /\ effectGen < MaxEffects
    /\ effectGen' = effectGen + 1
    /\ effectActive' = TRUE
    /\ LET handle == FreshHandle(pendingFrames, animationFrameRef)
       IN /\ pendingFrames' = RequestAnimationFrame(pendingFrames, handle, effectGen')
          /\ animationFrameRef' = handle
    /\ dataRef' = <<[id |-> dataId, seen |-> data]>>
    /\ pc' = "mounted"
    /\ UNCHANGED <<now, rngState, config, data, interval, ticks, configId,
                   effectConfigId, activeTimers, nextTimer, dataOrigin, dataId,
                   refArray, synthVars, decimateVars,
                   timelineVars, renderVars, nextHandle, animationFrame,
                   lastRenderTimeRef, frameClock, frames, drawTimes,
                   targetInterval, lastDrawnData>>

\* index.ts:65-126: renderFrame, as RealtimeRenderFrame
LiveRenderFrame ==
    /\ \E f \in pendingFrames, gap \in FrameGaps :
          LET timestamp == frameClock + gap
              handle == FreshHandle(pendingFrames \ {f}, animationFrameRef)
          IN /\ IF SkipFrame(timestamp, lastRenderTimeRef, targetInterval)
                THEN /\ frameClock' = timestamp
                     /\ UNCHANGED <<lastRenderTimeRef, lastDrawnData>>
                ELSE /\ frameClock' = 0
                     /\ lastRenderTimeRef' = 0
                     /\ lastDrawnData' = CurrentData(dataRef)
             /\ pendingFrames' = RequestAnimationFrame(pendingFrames \ {f},
                                                       handle, f.effect)
             /\ animationFrameRef' = handle
    /\ UNCHANGED <<now, rngState, demoVars, synthVars, decimateVars, pc,
                   timelineVars, renderVars, nextHandle, animationFrame,
                   effectGen, effectActive, frames, drawTimes, targetInterval>>

\* index.ts:130-135: the ResizeObserver callback, as RealtimeResize
LiveResize ==
    /\ effectActive
    /\ LET cancelled == CancelCurrent(pendingFrames, animationFrameRef)
           handle == FreshHandle(cancelled, animationFrameRef)
       IN /\ pendingFrames' = RequestAnimationFrame(cancelled, handle, effectGen)
          /\ animationFrameRef' = handle
    /\ UNCHANGED <<now, rngState, demoVars, synthVars, decimateVars, pc,
                   timelineVars, renderVars, nextHandle, animationFrame,
                   lastRenderTimeRef, effectGen, effectActive, frameClock,
                   frames, drawTimes, targetInterval, lastDrawnData>>

\* index.ts:139-144: the cleanup on unmount, as RealtimeCleanup
LiveCleanup ==
    /\ effectActive
    /\ pendingFrames' = CancelCurrent(pendingFrames, animationFrameRef)
    /\ effectActive' = FALSE
    /\ pc' = "unmounted"
    /\ UNCHANGED <<now, rngState, demoVars, synthVars, decimateVars,
                   timelineVars, renderVars, nextHandle, animationFrameRef,
                   animationFrame, lastRenderTimeRef, effectGen, frameClock,
                   frames, drawTimes, targetInterval, lastDrawnData>>

\* index.ts:145: the configuration changed, as RealtimeDepsChange
LiveDepsChange ==
    /\ effectActive
    /\ effectGen < MaxEffects
    /\ effectGen' = effectGen + 1
    /\ LET cancelled == CancelCurrent(pendingFrames, animationFrameRef)
           handle == FreshHandle(cancelled, animationFrameRef)
       IN /\ pendingFrames' = RequestAnimationFrame(cancelled, handle, effectGen')
          /\ animationFrameRef' = handle
    /\ UNCHANGED <<now, rngState, demoVars, synthVars, decimateVars, pc,
                   timelineVars, renderVars, nextHandle, animationFrame,
                   lastRenderTimeRef, effectActive, frameClock, frames,
                   drawTimes, targetInterval, lastDrawnData>>

NextRealtimeLive ==
    \/ LiveEffect
    \/ LiveRenderFrame
    \/ LiveResize
    \/ LiveCleanup
    \/ LiveDepsChange
    \/ RealtimeDataUpdate

\* the browser runs a requested animation-frame callback that is not
\* cancelled, and the timestamps advance by a gap of FrameGaps: frames keep
\* firing
SpecRealtimeLive ==
    /\ InitRealtime
    /\ [][NextRealtimeLive]_vars
    /\ WF_vars(LiveRenderFrame)

(***************************************************************************)
(* Claims about the progress of the real-time strip's draw loop.           *)
(***************************************************************************)
\* C27: while RealtimeECGDisplay is mounted, after every renderFrame
\* execution (skip path or draw path) and after every resize notification
\* exactly one renderFrame callback is pending; so, frames firing with
\* advancing timestamps, every buffer update is eventually followed by a
\* draw that reads that update or a newer one.
C27_DrawLoopNeverStalls ==
    /\ [][(LiveRenderFrame \/ LiveResize) => Cardinality(pendingFrames') = 1]_vars
    /\ \A k \in 1 .. MaxTicks :
           [](dataId = k /\ effectActive =>
                  <>(lastDrawnData >= k \/ ~effectActive))

\* an update was drawn, a later one is waiting behind a skipped frame
C27_Witness ==
    /\ effectActive
    /\ dataId = 2
    /\ lastDrawnData = 1
    /\ frameClock > 0
    /\ Cardinality(pendingFrames) = 1

(***************************************************************************)
(* The count-based producer (pages/demo.tsx:6-22): the effect seeds the    *)
(* buffer with 10 s of samples and starts an interval of 1000 ms whose     *)
(* tick keeps the last samplingRate * 10 samples and appends 1 s of new    *)
(* ones.                                                                   *)
(***************************************************************************)
\* Array.prototype.slice(start): from start, counted from the end when
\* start is negative (and from the first element when it is -0)
SliceMutantAll(arr, start) == arr
Slice(arr, start) ==
    LET from == IF start < 0 THEN Max(Len(arr) + start, 0) ELSE Min(start, Len(arr))
    IN SubSeq(arr, from + 1, Len(arr))

\* demo.tsx:18: prev => [...prev.slice(-config.samplingRate * 10), ...newData]
CountUpdater(prev, newData, cfg) ==
    Slice(prev, -(cfg.samplingRate * 10)) \o newData

(***************************************************************************)
(* SpecCount: the count-based Demo mounted with a positive integer         *)
(* samplingRate; ticks come 1000 ms apart or later.                        *)
(***************************************************************************)
MaxRate == 3

CountLateness == {0, 250}

InitCount ==
    /\ now \in {100000, 100999}
    /\ rngState \in RngStates
    /\ config \in {[DEFAULT_CONFIG EXCEPT !.samplingRate = r] : r \in 1 .. MaxRate}
    /\ data = <<>>
    /\ interval = 0
    /\ ticks = 0
    /\ ProducerIdle
    /\ SynthIdle
    /\ DecimateIdle
    /\ pc = "unmounted"
    /\ ViewIdle

\* demo.tsx:10-19: the effect: setData(generateMockECG(10, config)) and
\* setInterval(..., 1000)
CountMount ==
    /\ pc = "unmounted"
    /\ data' = generateMockECG(10000, config.samplingRate, now, rngState)
    /\ rngState' = AdvanceRng(rngState, Len(data'))
    /\ interval' = 1
    /\ pc' = "mounted"
    /\ UNCHANGED <<now, config, ticks, producerVars, synthVars, decimateVars,
                   viewVars>>

\* demo.tsx:16-19: a tick of the interval and its state update
CountTick ==
    /\ pc = "mounted"
    /\ interval # 0
    /\ ticks < MaxTicks
    /\ \E late \in CountLateness :
          /\ now' = now + 1000 + late
          /\ LET newData == generateMockECG(1000, config.samplingRate, now', rngState)
             IN /\ data' = CountUpdater(data, newData, config)
                /\ rngState' = AdvanceRng(rngState, Len(newData))
    /\ ticks' = ticks + 1
    /\ UNCHANGED <<config, interval, producerVars, synthVars, decimateVars, pc,
                   viewVars>>

NextCount == CountMount \/ CountTick

SpecCount == InitCount /\ [][NextCount]_vars

\* C29: in the count-based producer, after the seed and any number of ticks
\* the buffer length is at most 11 * samplingRate, for every positive
\* integer samplingRate.
C29_CountBufferBounded ==
    Len(data) <= 11 * config.samplingRate

C29_Witness ==
    /\ pc = "mounted"
    /\ ticks >= 2
    /\ config.samplingRate = MaxRate
    /\ Len(data) = 11 * config.samplingRate

(***************************************************************************)
(* Claims about what decimateData does to its argument (SpecDecimate).     *)
(***************************************************************************)
\* C30: decimateData never modifies its input sequence or any sample in it,
\* and every sample it returns is an element of the input with the same
\* value and timestamp: it never averages or fabricates samples.
C30_DecimateReturnsInputSamples ==
    /\ [][rowData' = rowData]_vars
    /\ [](pc = "done" =>
             \A k \in 1 .. Len(decimatedData) :
                 \E i \in 1 .. Len(rowData) : decimatedData[k] = rowData[i])

C30_Witness ==
    /\ pc = "done"
    /\ Len(rowData) = MaxLen
    /\ targetPoints = 2
    /\ Len(decimatedData) = 6
    /\ \E k \in 1 .. Len(decimatedData) :
           decimatedData[k].value # decimatedData[1].value

====
